---- MODULE Spec2Model ----
(***************************************************************************)
(* Model of libavfilter/vf_drawtext.c: the glyph cache (load_glyph), the   *)
(* two-pass layout and the draw pass of draw_text, the pixel blenders      *)
(* (SET_PIXEL_RGB, SET_PIXEL_YUV, draw_glyph_rgb, draw_glyph_yuv, drawbox) *)
(* and the frame handler end_frame.                                        *)
(*                                                                         *)
(* Representation of C integers: an `int` is its value; an `unsigned int`  *)
(* is held as the int32 with the same bit pattern (so 2^32-1 is held as    *)
(* -1), and unsigned comparisons go through ULT.  All magnitudes in the    *)
(* model stay far below 2^31, so +, - on these representatives are exact   *)
(* modulo 2^32.                                                            *)
(*                                                                         *)
(* The text is a sequence of ASCII codepoints; for bytes below 128         *)
(* GET_UTF8 yields the byte itself, one codepoint per byte.                *)
(***************************************************************************)
EXTENDS Integers, Sequences, FiniteSets, TLC

\* ---------------------------------------------------------------- bounds
\* frame width and height in pixels (picref->video->w, picref->video->h)
W == 4
H == 4
\* number of frames fed to one filter instance
MaxFrames == 2

\* ------------------------------------------------------------- codepoints
\* '\r', '\n', '\t' as draw_text compares them
CR  == 13
LF  == 10
TAB == 9

\* the other codepoints the texts of the model are made of
cp == [A |-> 65, B |-> 66, J |-> 106, SP |-> 32, L |-> 76, X |-> 88, Y |-> 89]
cA  == cp.A
cB  == cp.B
cJ  == cp.J
cSP == cp.SP
cL  == cp.L
cX  == cp.X
cY  == cp.Y

\* a null Glyph pointer; a non-null pointer is held as the code of its record
NULLPTR == -1

AVERROR_EINVAL == -22

y_min_init == 32000
y_max_init == -32000

\* ------------------------------------------------------ external rasterizer
\* codepoints for which FT_Load_Char returns an error
LoadCharFails(code) == code = cX

\* codepoints for which FT_Get_Glyph returns an error after a good load
GetGlyphFails(code) == code = cY

NoBitmap == [pixel_mode |-> "gray", rows |-> 0, width |-> 0, pitch |-> 0, buffer |-> <<>>]

\* the glyph slot the rasterizer fills for a codepoint: bitmap, bearing,
\* advance (26.6 fixed point) and control box
FTSlot(code) ==
    CASE code = cA  -> [bitmap |-> [pixel_mode |-> "gray", rows |-> 2, width |-> 2, pitch |-> 2,
                                    buffer |-> <<255, 0, 128, 255>>],
                        bitmap_left |-> 0, bitmap_top |-> 2, advance_x |-> 128 + 17,
                        yMin |-> 0, yMax |-> 2]
      [] code = cB  -> [bitmap |-> [pixel_mode |-> "mono", rows |-> 2, width |-> 2, pitch |-> 1,
                                    buffer |-> <<64, 128>>],
                        bitmap_left |-> 0, bitmap_top |-> 1, advance_x |-> 64,
                        yMin |-> 0, yMax |-> 1]
      [] code = cJ  -> [bitmap |-> [pixel_mode |-> "gray", rows |-> 2, width |-> 2, pitch |-> 2,
                                    buffer |-> <<255, 255, 0, 255>>],
                        bitmap_left |-> -1, bitmap_top |-> 3, advance_x |-> 64,
                        yMin |-> -1, yMax |-> 1]
      [] code = cSP -> [bitmap |-> [pixel_mode |-> "gray", rows |-> 1, width |-> 2, pitch |-> 2,
                                    buffer |-> <<0, 0>>],
                        bitmap_left |-> 0, bitmap_top |-> 1, advance_x |-> 64,
                        yMin |-> 0, yMax |-> 0]
      [] code = cL  -> [bitmap |-> [pixel_mode |-> "lcd", rows |-> 1, width |-> 3, pitch |-> 3,
                                    buffer |-> <<255, 255, 255>>],
                        bitmap_left |-> 0, bitmap_top |-> 1, advance_x |-> 64,
                        yMin |-> 0, yMax |-> 1]
      [] OTHER      -> [bitmap |-> NoBitmap,
                        bitmap_left |-> 0, bitmap_top |-> 0, advance_x |-> 64,
                        yMin |-> 0, yMax |-> 0]

\* FT_Get_Kerning(face, left, right, ft_kerning_default).x, 26.6 fixed point
FT_Get_Kerning(left, right) ==
    CASE left = cA /\ right = cB -> -64
      [] left = cB /\ right = cA -> -1
      [] left = cA /\ right = cA -> 0
      [] left = cB /\ right = cB -> 100
      [] OTHER                   -> 0

\* the conversion written as a division that rounds toward zero
Shr6_trunc(v) == IF v >= 0 THEN v \div 64 ELSE -((-v) \div 64)

\* C's  v >> 6  on a signed value (arithmetic shift: floor division)
Shr6(v) == v \div 64

\* ------------------------------------------------------------ glyph records
\* the Glyph record load_glyph builds from the rasterizer's slot
MakeGlyph(code) ==
    LET s == FTSlot(code)
    IN  [code |-> code, bitmap |-> s.bitmap, bitmap_left |-> s.bitmap_left,
         bitmap_top |-> s.bitmap_top, advance |-> Shr6(s.advance_x),
         yMin |-> s.yMin, yMax |-> s.yMax]

\* what a read through a null Glyph pointer can yield when it does not trap
GarbageGlyphs ==
    { [code |-> 0, bitmap |-> [pixel_mode |-> "none", rows |-> 0, width |-> 0, pitch |-> 0,
                               buffer |-> <<>>],
       bitmap_left |-> 0, bitmap_top |-> 0, advance |-> 0, yMin |-> 0, yMax |-> 0],
      [code |-> 7, bitmap |-> [pixel_mode |-> "gray", rows |-> 1, width |-> 1, pitch |-> 1,
                               buffer |-> <<255>>],
       bitmap_left |-> 0, bitmap_top |-> 0, advance |-> 1, yMin |-> 0, yMax |-> 1] }

\* glyph_cmp: order of two codes as unsigned 32-bit values
glyph_cmp(a, b) == IF a > b THEN 1 ELSE IF a < b THEN -1 ELSE 0

\* av_tree_find(dtext->glyphs, &dummy, glyph_cmp, NULL): pointer or NULL
av_tree_find(tree, code) ==
    IF \E g \in tree : glyph_cmp(g.code, code) = 0 THEN code ELSE NULLPTR

\* av_tree_insert: adds the element unless an equal key is present
av_tree_insert(tree, g) ==
    IF \E e \in tree : glyph_cmp(e.code, g.code) = 0 THEN tree ELSE tree \cup {g}

\* the records a read through pointer ptr can see
Deref(tree, ptr) ==
    IF ptr = NULLPTR THEN GarbageGlyphs ELSE { g \in tree : g.code = ptr }

\* --------------------------------------------------------------- the inputs
Texts ==
    { <<>>, <<cA>>, <<cA, cB>>, <<cA, cA, cA>>, <<cB, cA>>, <<cJ>>, <<cSP>>,
      <<cA, cL, cB>>, <<cX>>, <<cY>>, <<cA, CR, LF, cB>>, <<cB, TAB, cB>>, <<cA, LF, cB>>,
      <<CR, LF, LF, cB>>, <<cB, cB>> }

Codes == {0, CR, LF, TAB, cA, cB, cJ, cSP, cL, cX, cY}

\* length of the longest text; dtext->positions is modelled up to it
MaxTextLen == 4

\* configured origins (dtext->x, dtext->y): inside the frame, on its last
\* column/row, and at the frame edge
Origins == { <<0, 0>>, <<1, 0>>, <<W - 1, 0>>, <<W, 0>>, <<0, H - 1>>, <<0, H>> }

\* pixel formats: packed RGB24 and planar YUV420P
Formats ==
    { [is_packed_rgb |-> TRUE,  hsub |-> 0, vsub |-> 0],
      [is_packed_rgb |-> FALSE, hsub |-> 1, vsub |-> 1] }

\* format-native colours (R,G,B,A or Y,U,V,A)
FontColor == <<200, 100, 50, 255>>

\* box settings: no box, opaque box, translucent box
Boxes ==
    { [draw_box |-> FALSE, boxcolor |-> <<80, 160, 240, 255>>],
      [draw_box |-> TRUE,  boxcolor |-> <<80, 160, 240, 255>>],
      [draw_box |-> TRUE,  boxcolor |-> <<80, 160, 240, 128>>] }

\* the filter instance's options and format binding (init, config_input)
Configs ==
    { [x |-> o[1], y |-> o[2], draw_box |-> b.draw_box, boxcolor |-> b.boxcolor,
       fontcolor |-> FontColor, use_kerning |-> k, tabsize |-> 4,
       is_packed_rgb |-> f.is_packed_rgb, hsub |-> f.hsub, vsub |-> f.vsub]
      : o \in Origins, b \in Boxes, k \in BOOLEAN, f \in Formats }

Pixels == (0 .. W - 1) \X (0 .. H - 1)

\* content of a frame buffer as it arrives
FreshFrame ==
    [p0 |-> [p \in Pixels |-> 100], p1 |-> [p \in Pixels |-> 120], p2 |-> [p \in Pixels |-> 90]]

\* ------------------------------------------------------------- C arithmetic
\* a < b for two unsigned ints held as int32 bit patterns
ULT(a, b) == IF (a < 0) = (b < 0) THEN a < b ELSE b < 0

\* FFMIN(a, b) = ((a) > (b) ? (b) : (a)) on two ints
FFMIN(a, b) == IF a > b THEN b ELSE a

\* FFMAX(a, b) = ((a) > (b) ? (a) : (b)) on two ints
FFMAX(a, b) == IF a > b THEN a ELSE b

\* FFMIN(a, b) where b is unsigned: the usual arithmetic conversions make the
\* comparison and the result unsigned
FFMIN_unsigned(a, b) == IF ULT(b, a) THEN b ELSE a

\* C's a / b for b > 0: truncation toward zero
CDiv(a, b) == IF a >= 0 THEN a \div b ELSE -((-a) \div b)

\* C's v >> n for v >= 0
Shr(v, n) == IF n = 0 THEN v ELSE v \div (2 ^ n)

\* a value stored into a uint8_t
U8(v) == v % 256

\* byte & mask for a mask with one bit set
BitAnd(byte, mask) == ((byte \div mask) % 2) * mask

\* ----------------------------------------------------------- pixel blenders
\* GET_BITMAP_VAL(r, c): the int the macro yields
GET_BITMAP_VAL(bitmap, r, c) ==
    IF bitmap.pixel_mode = "mono"
    THEN BitAnd(bitmap.buffer[r * bitmap.pitch + Shr(c, 3) + 1], Shr(128, c % 8)) * 255
    ELSE bitmap.buffer[r * bitmap.pitch + c + 1]

\* src_val = GET_BITMAP_VAL(r, c), src_val being a uint8_t
SrcVal(bitmap, r, c) == U8(GET_BITMAP_VAL(bitmap, r, c))

\* (alpha * color + (255 - alpha) * dest) >> 8, stored into a byte
BlendShift8(alpha, color, dest) == U8(Shr(alpha * color + (255 - alpha) * dest, 8))

\* 16 + (alpha * (color-16) + (224 - alpha) * (dest-16)) / 224, stored into a byte
BlendChroma(alpha, color, dest) ==
    U8(16 + CDiv(alpha * (color - 16) + (224 - alpha) * (dest - 16), 224))

\* SET_PIXEL_RGB(picref, rgba_color, val, x, y, ...): p0, p1, p2 are the R, G
\* and B bytes of the packed pixel (found through rgba_map)
SET_PIXEL_RGB(fr, color, val, px, py) ==
    LET alpha == (color[4] * val) \div 255
        p     == <<px, py>>
    IN  [p0 |-> [fr.p0 EXCEPT ![p] = BlendShift8(alpha, color[1], @)],
         p1 |-> [fr.p1 EXCEPT ![p] = BlendShift8(alpha, color[2], @)],
         p2 |-> [fr.p2 EXCEPT ![p] = BlendShift8(alpha, color[3], @)]]

\* SET_PIXEL_YUV(picref, yuva_color, val, x, y, hsub, vsub): p0 is the luma
\* plane, p1 and p2 the chroma planes
SET_PIXEL_YUV(fr, color, val, px, py, hsub, vsub) ==
    LET alphaL == (color[4] * val) \div 255
        alphaC == (color[4] * val) \div 224
        lp     == <<px, py>>
        chp    == <<Shr(px, hsub), Shr(py, vsub)>>
    IN  [p0 |-> [fr.p0 EXCEPT ![lp]  = BlendShift8(alphaL, color[1], @)],
         p1 |-> [fr.p1 EXCEPT ![chp] = BlendChroma(alphaC, color[2], @)],
         p2 |-> [fr.p2 EXCEPT ![chp] = BlendChroma(alphaC, color[3], @)]]

\* the blend of the bound layout
SetPixel(fr, color, val, px, py, fmt) ==
    IF fmt.is_packed_rgb
    THEN SET_PIXEL_RGB(fr, color, val, px, py)
    ELSE SET_PIXEL_YUV(fr, color, val, px, py, fmt.hsub, fmt.vsub)

\* the test of src_val left out: every sample is blended
SkipSample_never(src_val) == FALSE

\* if (!src_val) continue;
SkipSample(src_val) == src_val = 0

\* number of leading indices 0, 1, ... below n whose coordinate passes the
\* loop test  k + start < limit  (unsigned); the loop stops at the first failure
LoopLen(n, start, limit) ==
    Cardinality({ k \in 0 .. n - 1 : \A j \in 0 .. k : ULT(j + start, limit) })

\* the samples draw_glyph_rgb / draw_glyph_yuv visit, in loop order, each with
\* its destination and src_val
GlyphSamples(bitmap, ux, uy, width, height) ==
    LET nr == LoopLen(bitmap.rows, uy, height)
        nc == LoopLen(bitmap.width, ux, width)
    IN  [k \in 1 .. nr * nc |->
            LET r == (k - 1) \div nc
                c == (k - 1) % nc
            IN  [x |-> c + ux, y |-> uy + r, val |-> SrcVal(bitmap, r, c)]]

\* the body of the two loops, over the visited samples from index k on
RECURSIVE DrawSamples(_, _, _, _, _)
DrawSamples(fr, samples, k, color, fmt) ==
    IF k > Len(samples) THEN fr
    ELSE LET s == samples[k]
         IN  IF SkipSample(s.val)
             THEN DrawSamples(fr, samples, k + 1, color, fmt)
             ELSE DrawSamples(SetPixel(fr, color, s.val, s.x, s.y, fmt),
                              samples, k + 1, color, fmt)

\* draw_glyph_rgb / draw_glyph_yuv: the frame after the call and the set of
\* destination pixels it wrote
draw_glyph(fr, bitmap, ux, uy, width, height, color, fmt) ==
    LET samples == GlyphSamples(bitmap, ux, uy, width, height)
    IN  [frame |-> DrawSamples(fr, samples, 1, color, fmt),
         pix   |-> { <<samples[k].x, samples[k].y>> :
                        k \in { j \in 1 .. Len(samples) : ~SkipSample(samples[j].val) } }]

\* ------------------------------------------------------------------ drawbox
\* the pixels of the rectangle (x, y, width, height) that lie in the frame, in
\* loop order (j over rows, i over columns), width and height unsigned
BoxPoints(bx, by, width, height) ==
    LET nc == Cardinality({ c \in 0 .. W - 1 : ULT(c, width)  /\ bx + c < W })
        nr == Cardinality({ r \in 0 .. H - 1 : ULT(r, height) /\ by + r < H })
    IN  [k \in 1 .. nr * nc |->
            [x |-> bx + ((k - 1) % nc), y |-> by + ((k - 1) \div nc), val |-> 255]]

\* TRUE when the two loops of drawbox reach a pixel outside the frame
BoxLeavesFrame(bx, by, width, height) ==
    /\ width # 0 /\ height # 0
    /\ ~(width > 0 /\ height > 0 /\ bx + width <= W /\ by + height <= H)

\* the general path of drawbox: SET_PIXEL_RGB / SET_PIXEL_YUV with val 255 on
\* every pixel of the rectangle
RECURSIVE BlendPoints(_, _, _, _, _)
BlendPoints(fr, pts, k, color, fmt) ==
    IF k > Len(pts) THEN fr
    ELSE BlendPoints(SetPixel(fr, color, pts[k].val, pts[k].x, pts[k].y, fmt),
                     pts, k + 1, color, fmt)

\* ff_draw_rectangle with the line filled by ff_fill_line_with_color: every
\* pixel of the rectangle takes the format-native colour
RECURSIVE ff_draw_rectangle(_, _, _, _, _)
ff_draw_rectangle(fr, pts, k, color, fmt) ==
    IF k > Len(pts) THEN fr
    ELSE LET lp  == <<pts[k].x, pts[k].y>>
             chp == <<Shr(pts[k].x, fmt.hsub), Shr(pts[k].y, fmt.vsub)>>
         IN  ff_draw_rectangle([p0 |-> [fr.p0 EXCEPT ![lp]  = color[1]],
                                p1 |-> [fr.p1 EXCEPT ![chp] = color[2]],
                                p2 |-> [fr.p2 EXCEPT ![chp] = color[3]]],
                               pts, k + 1, color, fmt)

\* if (color[3] != 0xFF): the general path, else the fast path
BoxUsesBlend(color) == color[4] # 255

\* drawbox: the frame after the call, the in-frame pixels written and whether
\* a pixel outside the frame was addressed
drawbox(fr, bx, by, width, height, color, fmt) ==
    LET pts == BoxPoints(bx, by, width, height)
    IN  [frame |-> IF BoxUsesBlend(color)
                   THEN BlendPoints(fr, pts, 1, color, fmt)
                   ELSE ff_draw_rectangle(fr, pts, 1, color, fmt),
         pix   |-> { <<pts[k].x, pts[k].y>> : k \in 1 .. Len(pts) },
         oob   |-> BoxLeavesFrame(bx, by, width, height)]

\* ---------------------------------------------------------------- load_glyph
\* load_glyph(ctx, &glyph, code): the return value, the tree afterwards and
\* the value left in *glyph_ptr (unchanged, here NULL, on an error return)
load_glyph(tree, code) ==
    IF LoadCharFails(code) \/ GetGlyphFails(code)
    THEN [ret |-> AVERROR_EINVAL, glyphs |-> tree, glyph_ptr |-> NULLPTR]
    ELSE [ret |-> 0, glyphs |-> av_tree_insert(tree, MakeGlyph(code)), glyph_ptr |-> code]

\* the test of the \r\n sequence left out: the \n breaks the line again
SkipsNewline_never(prev, code) == FALSE

\* if (prev_code == '\r' && code == '\n') continue;
SkipsNewline(prev, code) == prev = CR /\ code = LF

\* the wrap test written with > in place of >=
WrapCond_strict(px, advance, width) == px + advance > width

\* if (x + glyph->advance >= width)
WrapCond(px, advance, width) == px + advance >= width

\* the box drawn after the glyph loop instead of before it
PhaseAfter_boxlast(phase) ==
    CASE phase = "pass1" -> "pass2"
      [] phase = "pass2" -> "draw"
      [] phase = "draw"  -> "box"
      [] phase = "box"   -> "ret"

\* the order of the phases of draw_text after the first pass
PhaseAfter(phase) ==
    CASE phase = "pass1" -> "pass2"
      [] phase = "pass2" -> "box"
      [] phase = "box"   -> "draw"
      [] phase = "draw"  -> "ret"

\* -------------------------------------------------------------------- state
VARIABLES
    cfg,          \* DrawTextContext: the options and the format binding
    glyphs,       \* dtext->glyphs: the tree of cached Glyph records
    positions,    \* dtext->positions
    ft_calls,     \* number of FT_Load_Char calls made so far, per codepoint
    frames,       \* number of frames handled so far
    pc,           \* where end_frame / draw_text stands
    text,         \* the expanded text of the current frame
    i,            \* loop index of the current pass (1-based)
    x, y,         \* the pen
    str_w, str_w_max,
    y_min, y_max, text_height, baseline,
    prev_code,
    glyph,        \* Glyph *glyph
    picref,       \* the frame buffer
    ret,          \* draw_text's return value
    log,          \* the writes made to the frame buffer in this frame, in order
    oob,          \* a write outside the frame buffer was made
    used,         \* the Glyph pointers read through in this frame
    lay,          \* the placements made by the second pass in this frame
    boxrect,      \* the arguments of the last drawbox call
    out           \* what end_frame did with the last frame: handed downstream,
                  \* error reported to its caller, draw_text's return value,
                  \* number of writes made, a null glyph was read through

vars == <<cfg, glyphs, positions, ft_calls, frames, pc, text, i, x, y, str_w, str_w_max,
          y_min, y_max, text_height, baseline, prev_code, glyph, picref, ret, log, oob,
          used, lay, boxrect, out>>

NoLay == <<>>
NoBox == [called |-> FALSE, x |-> 0, y |-> 0, width |-> 0, height |-> 0]
NoOut == [sent |-> FALSE, reported |-> FALSE, ret |-> 0, writes |-> 0, null_read |-> FALSE]

\* the locals of draw_text and the per-frame records outside a frame
Locals ==
    /\ text = <<>> /\ i = 1 /\ x = 0 /\ y = 0 /\ str_w = 0 /\ str_w_max = 0
    /\ y_min = y_min_init /\ y_max = y_max_init /\ text_height = 0 /\ baseline = 0
    /\ prev_code = 0 /\ glyph = NULLPTR /\ ret = 0 /\ log = <<>> /\ oob = FALSE
    /\ used = {} /\ lay = NoLay /\ boxrect = NoBox

\* init and config_input: options parsed, the fallback glyph of code 0 loaded
Init ==
    /\ cfg \in Configs
    /\ glyphs = load_glyph({}, 0).glyphs
    /\ ft_calls = [c \in Codes |-> IF c = 0 THEN 1 ELSE 0]
    /\ positions = [k \in 1 .. MaxTextLen |-> [x |-> 0, y |-> 0]]
    /\ frames = 0
    /\ pc = "idle"
    /\ picref = FreshFrame
    /\ out = NoOut
    /\ Locals

\* ------------------------------------------------------------------ actions
\* end_frame is called with a new frame; draw_text expands the text (strftime)
\* and initialises its locals
StartFrame(t) ==
    /\ pc = "idle" /\ frames < MaxFrames
    /\ text' = t
    /\ picref' = FreshFrame
    /\ pc' = "pass1"
    /\ i' = 1
    /\ x' = cfg.x /\ y' = cfg.y
    /\ str_w' = 0 /\ str_w_max' = 0
    /\ y_min' = y_min_init /\ y_max' = y_max_init
    /\ prev_code' = 0 /\ glyph' = NULLPTR
    /\ out' = NoOut
    /\ UNCHANGED <<cfg, glyphs, positions, ft_calls, frames, text_height, baseline, ret, log,
                   oob, used, lay, boxrect>>

\* strftime reports that the expanded text does not fit: draw_text returns
\* AVERROR(EINVAL) before any layout or drawing
StartFrameTooBig ==
    /\ pc = "idle" /\ frames < MaxFrames
    /\ picref' = FreshFrame
    /\ ret' = AVERROR_EINVAL
    /\ pc' = "ret"
    /\ out' = NoOut
    /\ UNCHANGED <<cfg, glyphs, positions, ft_calls, frames, text, i, x, y, str_w, str_w_max,
                   y_min, y_max, text_height, baseline, prev_code, glyph, log, oob, used,
                   lay, boxrect>>

\* one iteration of the first loop: find or load the glyph, fold its box into
\* y_min / y_max.  A read through a null glyph either traps or yields garbage.
Pass1Step ==
    /\ pc = "pass1" /\ i <= Len(text)
    /\ LET code  == text[i]
           found == av_tree_find(glyphs, code)
           miss  == found = NULLPTR
           ld    == load_glyph(glyphs, code)
           ptr   == IF miss THEN ld.glyph_ptr ELSE found
           tree  == IF miss THEN ld.glyphs ELSE glyphs
       IN  /\ glyphs' = tree
           /\ ft_calls' = IF miss THEN [ft_calls EXCEPT ![code] = @ + 1] ELSE ft_calls
           /\ glyph' = ptr
           /\ used' = used \cup {ptr}
           /\ \/ \E g \in Deref(tree, ptr) :
                    /\ y_min' = FFMIN(g.yMin, y_min)
                    /\ y_max' = FFMAX(g.yMax, y_max)
                    /\ i' = i + 1
                    /\ pc' = pc
              \/ /\ ptr = NULLPTR
                 /\ pc' = "crashed"
                 /\ UNCHANGED <<y_min, y_max, i>>
    /\ UNCHANGED <<cfg, positions, frames, text, x, y, str_w, str_w_max, text_height,
                   baseline, prev_code, picref, ret, log, oob, lay, boxrect, out>>

\* after the first loop: text_height, baseline, glyph = NULL
Pass1Done ==
    /\ pc = "pass1" /\ i > Len(text)
    /\ text_height' = y_max - y_min
    /\ baseline' = y_max
    /\ glyph' = NULLPTR
    /\ i' = 1
    /\ pc' = PhaseAfter("pass1")
    /\ UNCHANGED <<cfg, glyphs, positions, ft_calls, frames, text, x, y, str_w, str_w_max,
                   y_min, y_max, prev_code, picref, ret, log, oob, used, lay, boxrect, out>>

\* one iteration of the second loop: kerning, line break, position, advance
Pass2Step ==
    /\ pc = "pass2" /\ i <= Len(text)
    /\ LET code == text[i]
       IN  IF SkipsNewline(prev_code, code)
           THEN /\ i' = i + 1
                /\ UNCHANGED <<positions, x, y, str_w, str_w_max, prev_code, glyph, pc,
                               used, lay>>
           ELSE LET prev_glyph == glyph
                    found      == av_tree_find(glyphs, code)
                IN  /\ glyph' = found
                    /\ used' = used \cup {found}
                    /\ \/ \E g \in Deref(glyphs, found) :
                            LET kern   == cfg.use_kerning /\ prev_glyph # NULLPTR /\ g.code # 0
                                kx     == IF kern
                                          THEN x + Shr6(FT_Get_Kerning(prev_glyph, g.code))
                                          ELSE x
                                wide   == WrapCond(kx, g.advance, W)
                                break  == wide \/ code = CR \/ code = LF
                                y1     == IF break THEN y + text_height ELSE y
                                x1     == IF break THEN cfg.x ELSE kx
                                adv    == IF code = TAB THEN g.advance * cfg.tabsize
                                                        ELSE g.advance
                                moves  == code # LF /\ code # CR
                            IN  /\ str_w_max' = IF wide THEN W - cfg.x - 1 ELSE str_w_max
                                /\ y' = y1
                                /\ positions' = [positions EXCEPT ![i] =
                                                    [x |-> x1 + g.bitmap_left,
                                                     y |-> y1 - g.bitmap_top + baseline]]
                                /\ x' = IF moves THEN x1 + adv ELSE x1
                                /\ str_w' = IF moves THEN str_w + adv ELSE str_w
                                /\ prev_code' = code
                                /\ lay' = Append(lay,
                                               [i |-> i, code |-> code, kx |-> kx,
                                                x_before |-> x, kerned |-> kern,
                                                prev |-> prev_glyph, gcode |-> g.code,
                                                advance |-> g.advance,
                                                bitmap_left |-> g.bitmap_left,
                                                bitmap_top |-> g.bitmap_top,
                                                y_before |-> y, y_after |-> y1])
                                /\ i' = i + 1
                                /\ pc' = pc
                       \/ /\ found = NULLPTR
                          /\ pc' = "crashed"
                          /\ UNCHANGED <<positions, x, y, str_w, str_w_max, prev_code, lay, i>>
    /\ UNCHANGED <<cfg, glyphs, ft_calls, frames, text, y_min, y_max, text_height, baseline,
                   picref, ret, log, oob, boxrect, out>>

\* after the second loop: y += text_height; the retained line width
Pass2Done ==
    /\ pc = "pass2" /\ i > Len(text)
    /\ y' = y + text_height
    /\ str_w_max' = IF str_w_max = 0 THEN str_w ELSE str_w_max
    /\ i' = 1
    /\ pc' = PhaseAfter("pass2")
    /\ UNCHANGED <<cfg, glyphs, positions, ft_calls, frames, text, x, str_w, y_min, y_max,
                   text_height, baseline, prev_code, glyph, picref, ret, log, oob, used, lay,
                   boxrect, out>>

\* if (dtext->draw_box) { clamp; drawbox(...) }.  A write outside the frame
\* buffer either traps or goes on.
DrawBox ==
    /\ pc = "box"
    /\ IF cfg.draw_box
       THEN LET w1  == FFMIN_unsigned(str_w_max, W - cfg.x - 1)
                y1  == FFMIN(y, H - 1)
                h1  == y1 - cfg.y
                fmt == [is_packed_rgb |-> cfg.is_packed_rgb, hsub |-> cfg.hsub,
                        vsub |-> cfg.vsub]
                b   == drawbox(picref, cfg.x, cfg.y, w1, h1, cfg.boxcolor, fmt)
            IN  /\ str_w_max' = w1
                /\ y' = y1
                /\ boxrect' = [called |-> TRUE, x |-> cfg.x, y |-> cfg.y,
                               width |-> w1, height |-> h1]
                /\ oob' = (oob \/ b.oob)
                /\ \/ /\ picref' = b.frame
                      /\ log' = Append(log, [kind |-> "box", pix |-> b.pix, i |-> 0])
                      /\ pc' = PhaseAfter("box")
                   \/ /\ b.oob
                      /\ pc' = "crashed"
                      /\ UNCHANGED <<picref, log>>
       ELSE /\ pc' = PhaseAfter("box")
            /\ UNCHANGED <<str_w_max, y, boxrect, oob, picref, log>>
    /\ UNCHANGED <<cfg, glyphs, positions, ft_calls, frames, text, i, x, str_w, y_min, y_max,
                   text_height, baseline, prev_code, glyph, ret, used, lay, out>>

\* one iteration of the third loop: skip line-control codes, reject an
\* unsupported pixel mode, else draw the glyph at its saved position
DrawGlyph ==
    /\ pc = "draw" /\ i <= Len(text)
    /\ LET code == text[i]
       IN  IF code = LF \/ code = CR \/ code = TAB
           THEN /\ i' = i + 1
                /\ UNCHANGED <<glyph, used, picref, log, ret, pc>>
           ELSE LET found == av_tree_find(glyphs, code)
                    fmt   == [is_packed_rgb |-> cfg.is_packed_rgb, hsub |-> cfg.hsub,
                              vsub |-> cfg.vsub]
                IN  /\ glyph' = found
                    /\ used' = used \cup {found}
                    /\ \/ \E g \in Deref(glyphs, found) :
                            IF g.bitmap.pixel_mode # "mono" /\ g.bitmap.pixel_mode # "gray"
                            THEN /\ ret' = AVERROR_EINVAL
                                 /\ pc' = "ret"
                                 /\ UNCHANGED <<i, picref, log>>
                            ELSE LET d == draw_glyph(picref, g.bitmap, positions[i].x,
                                                     positions[i].y, W, H, cfg.fontcolor, fmt)
                                 IN  /\ picref' = d.frame
                                     /\ log' = Append(log, [kind |-> "glyph", pix |-> d.pix,
                                                            i |-> i])
                                     /\ i' = i + 1
                                     /\ UNCHANGED <<ret, pc>>
                       \/ /\ found = NULLPTR
                          /\ pc' = "crashed"
                          /\ UNCHANGED <<i, picref, log, ret>>
    /\ UNCHANGED <<cfg, glyphs, positions, ft_calls, frames, text, x, y, str_w, str_w_max,
                   y_min, y_max, text_height, baseline, prev_code, oob, lay, boxrect, out>>

\* after the third loop: return 0
DrawDone ==
    /\ pc = "draw" /\ i > Len(text)
    /\ ret' = 0
    /\ pc' = PhaseAfter("draw")
    /\ UNCHANGED <<cfg, glyphs, positions, ft_calls, frames, text, i, x, y, str_w, str_w_max,
                   y_min, y_max, text_height, baseline, prev_code, glyph, picref, log, oob,
                   used, lay, boxrect, out>>

\* end_frame after draw_text returned: the return value is dropped, the frame
\* goes downstream (avfilter_draw_slice, avfilter_end_frame); end_frame is void
EndFrame ==
    /\ pc = "ret"
    /\ out' = [sent |-> TRUE, reported |-> FALSE, ret |-> ret, writes |-> Len(log),
                null_read |-> NULLPTR \in used]
    /\ frames' = frames + 1
    /\ pc' = "idle"
    /\ text' = <<>> /\ i' = 1 /\ x' = 0 /\ y' = 0 /\ str_w' = 0 /\ str_w_max' = 0
    /\ y_min' = y_min_init /\ y_max' = y_max_init /\ text_height' = 0 /\ baseline' = 0
    /\ prev_code' = 0 /\ glyph' = NULLPTR /\ ret' = 0 /\ log' = <<>> /\ oob' = FALSE
    /\ used' = {} /\ lay' = NoLay /\ boxrect' = NoBox
    /\ UNCHANGED <<cfg, glyphs, positions, ft_calls, picref>>

Next ==
    \/ \E t \in Texts : StartFrame(t)
    \/ StartFrameTooBig
    \/ Pass1Step
    \/ Pass1Done
    \/ Pass2Step
    \/ Pass2Done
    \/ DrawBox
    \/ DrawGlyph
    \/ DrawDone
    \/ EndFrame

Spec == Init /\ [][Next]_vars

\* ------------------------------------------------------------- properties
\* the coverage of a bitmap sample as the glyph bitmap defines it: the bit
\* (0 or 255) of a 1-bit bitmap, the byte of an 8-bit one
Coverage(bitmap, r, c) ==
    IF bitmap.pixel_mode = "mono"
    THEN (IF (bitmap.buffer[r * bitmap.pitch + (c \div 8) + 1] \div (2 ^ (7 - (c % 8)))) % 2 = 1
          THEN 255 ELSE 0)
    ELSE bitmap.buffer[r * bitmap.pitch + c + 1]

\* the cached record of the codepoint at index k of the text
GlyphOf(k) == CHOOSE g \in glyphs : g.code = text[k]

Cached(k) == \E g \in glyphs : g.code = text[k]

\* the samples of the glyph at index k, each with the destination its saved
\* position gives it (signed coordinates)
SamplesAt(k) ==
    LET g == GlyphOf(k)
    IN  { [r |-> r, c |-> c, x |-> positions[k].x + c, y |-> positions[k].y + r,
           cov |-> Coverage(g.bitmap, r, c)] :
          <<r, c>> \in (0 .. g.bitmap.rows - 1) \X (0 .. g.bitmap.width - 1) }

\* the in-frame destinations of the nonzero-coverage samples of glyph k
InkAt(k) == { <<s.x, s.y>> : s \in { t \in SamplesAt(k) : t.cov # 0 /\ <<t.x, t.y>> \in Pixels } }

ChromaOf(p) == <<Shr(p[1], cfg.hsub), Shr(p[2], cfg.vsub)>>

\* the step just made drew the glyph at index i of the text
GlyphDrawn ==
    /\ pc = "draw" /\ Len(log') = Len(log) + 1
    /\ log'[Len(log')].kind = "glyph"
    /\ Cached(i)

\* C1: over any sequence of frames the rasterizer (FT_Load_Char) is called at
\* most once for every codepoint, a failed call included.
C1_RasterizedAtMostOnce == \A c \in Codes : ft_calls[c] <= 1

\* C2: every glyph pointer the three passes read through is a present cached
\* record (the fallback glyph standing in after a failed load), never null.
C2_GlyphAlwaysPresent == NULLPTR \notin used

\* C3: no frame is handed downstream partly drawn (draw_text failed after
\* writing to the buffer) without an error being reported to the caller.
\* Stated for the frames in which every glyph was present, so that the
\* failure is draw_text's own error return.
C3_NoSilentPartialFrame ==
    (out.sent /\ ~out.null_read /\ out.ret # 0 /\ out.writes > 0) => out.reported

\* C4: the rectangle passed to drawbox is clamped to the frame: width and
\* height non-negative, x0 + width <= W, y0 + height <= H, no write outside.
C4_BoxClamped ==
    boxrect.called =>
        /\ boxrect.width >= 0 /\ boxrect.height >= 0
        /\ boxrect.x + boxrect.width <= W
        /\ boxrect.y + boxrect.height <= H
        /\ ~oob

\* C5: the pixels a glyph draw writes are exactly the in-frame destinations of
\* the nonzero-coverage samples, negative positions included.
C5_GlyphClippedExactly ==
    \A k \in 1 .. Len(log) :
        (log[k].kind = "glyph" /\ Cached(log[k].i)) => log[k].pix = InkAt(log[k].i)

\* the value the box leaves in byte p of plane 0 of a fresh frame
BoxedValue(p) ==
    IF BoxUsesBlend(cfg.boxcolor)
    THEN BlendShift8((cfg.boxcolor[4] * 255) \div 255, cfg.boxcolor[1], FreshFrame.p0[p])
    ELSE cfg.boxcolor[1]

\* the glyph writes of the log that cover pixel p
GlyphWritesOn(p) == { k \in 1 .. Len(log) : log[k].kind = "glyph" /\ p \in log[k].pix }

BoxWritesOn(p) == { k \in 1 .. Len(log) : log[k].kind = "box" /\ p \in log[k].pix }

\* C6: within a frame no box write follows a glyph write, and a pixel covered
\* by the box and by one nonzero-coverage glyph sample ends as the glyph blend
\* applied on top of the box result.
C6_BoxUnderGlyphs ==
    /\ \A k, l \in 1 .. Len(log) :
          k < l => ~(log[k].kind = "glyph" /\ log[l].kind = "box")
    /\ (pc = "ret" /\ ret = 0) =>
          \A p \in Pixels :
             \A k \in GlyphWritesOn(p) :
                (BoxWritesOn(p) # {} /\ GlyphWritesOn(p) = {k} /\ Cached(log[k].i)) =>
                   \E s \in SamplesAt(log[k].i) :
                      /\ <<s.x, s.y>> = p
                      /\ picref.p0[p] =
                            BlendShift8((cfg.fontcolor[4] * SrcVal(GlyphOf(log[k].i).bitmap, s.r, s.c))
                                            \div 255,
                                        cfg.fontcolor[1], BoxedValue(p))

\* a frame whose glyph loop ended with a glyph drawn over a box pixel
C6_Witness ==
    /\ pc = "ret" /\ ret = 0
    /\ \E p \in Pixels :
          /\ BoxWritesOn(p) # {}
          /\ \E k \in GlyphWritesOn(p) : GlyphWritesOn(p) = {k} /\ Cached(log[k].i)

\* C7: a sample of coverage 0 leaves its destination unchanged: after a glyph
\* draw every byte that no nonzero-coverage sample of the glyph addresses is
\* what it was, so an all-zero bitmap leaves the whole frame as it was.
C7_ZeroCoverageKeeps ==
    [][GlyphDrawn =>
          \A p \in Pixels :
             /\ (p \notin InkAt(i)) => picref'.p0[p] = picref.p0[p]
             /\ (p \notin { ChromaOf(q) : q \in InkAt(i) }) =>
                    (picref'.p1[p] = picref.p1[p] /\ picref'.p2[p] = picref.p2[p])]_vars

\* a glyph with a zero-coverage sample inside the frame was drawn, and a glyph
\* whose bitmap is all zero coverage was drawn inside the frame
C7_Witness ==
    /\ \E k \in 1 .. Len(log) :
          /\ log[k].kind = "glyph" /\ Cached(log[k].i)
          /\ \A s \in SamplesAt(log[k].i) : s.cov = 0
          /\ \E s \in SamplesAt(log[k].i) : <<s.x, s.y>> \in Pixels
          /\ picref = FreshFrame

\* the step just made ran drawbox on the fast path (box alpha 255)
OpaqueBoxDrawn ==
    /\ pc = "box" /\ cfg.draw_box /\ ~BoxUsesBlend(cfg.boxcolor)
    /\ Len(log') = Len(log) + 1

\* C8: for box alpha 255 the fast path leaves the same bytes as the general
\* blend path (val 255) would on the same rectangle.
C8_FastPathEqualsBlend ==
    [][OpaqueBoxDrawn =>
          picref' = BlendPoints(picref,
                                BoxPoints(boxrect'.x, boxrect'.y, boxrect'.width,
                                          boxrect'.height),
                                1, cfg.boxcolor,
                                [is_packed_rgb |-> cfg.is_packed_rgb, hsub |-> cfg.hsub,
                                 vsub |-> cfg.vsub])]_vars

\* C9: a nonzero-coverage sample writes (coverage*fg + (255-coverage)*dest) / 255
\* to the luma byte or to each packed channel (foreground alpha 255).
C9_BlendIsExactOver255 ==
    [][(GlyphDrawn /\ GlyphOf(i).bitmap.pixel_mode = "gray") =>
          \A s \in SamplesAt(i) :
             (s.cov # 0 /\ <<s.x, s.y>> \in log'[Len(log')].pix) =>
                LET p == <<s.x, s.y>>
                IN  /\ picref'.p0[p] =
                          (s.cov * cfg.fontcolor[1] + (255 - s.cov) * picref.p0[p]) \div 255
                    /\ cfg.is_packed_rgb =>
                          /\ picref'.p1[p] =
                                (s.cov * cfg.fontcolor[2] + (255 - s.cov) * picref.p1[p]) \div 255
                          /\ picref'.p2[p] =
                                (s.cov * cfg.fontcolor[3] + (255 - s.cov) * picref.p2[p]) \div 255]_vars

\* C10: in the second pass a glyph (not CR, not LF) with pen.x + advance = W
\* is placed on a new line (x0, pen.y + text_height); with pen.x + advance =
\* W - 1 it is placed at the current pen.
C10_WrapBoundary ==
    (pc = "pass2") =>
       \A k \in 1 .. Len(lay) :
          LET e == lay[k]
          IN  (e.code # CR /\ e.code # LF) =>
                 /\ (e.kx + e.advance = W) =>
                       /\ e.y_after = e.y_before + text_height
                       /\ positions[e.i] = [x |-> cfg.x + e.bitmap_left,
                                            y |-> e.y_before + text_height
                                                    - e.bitmap_top + baseline]
                 /\ (e.kx + e.advance = W - 1) =>
                       /\ e.y_after = e.y_before
                       /\ positions[e.i] = [x |-> e.kx + e.bitmap_left,
                                            y |-> e.y_before - e.bitmap_top + baseline]

\* one frame in which a glyph met the wrap test at W - 1 and a later one at W,
\* the pen being off the origin
C10_Witness ==
    /\ pc = "pass2" /\ text_height > 0
    /\ \E k, l \in 1 .. Len(lay) :
          /\ lay[k].code # CR /\ lay[k].code # LF /\ lay[l].code # CR /\ lay[l].code # LF
          /\ lay[k].kx + lay[k].advance = W - 1
          /\ lay[l].kx + lay[l].advance = W /\ lay[l].kx # cfg.x

\* the placements the second pass made for index k of the text
LayAt(k) == { n \in 1 .. Len(lay) : lay[n].i = k }

\* TRUE when the wrap test of placement e was met (a width-based line break)
Wide(e) == e.kx + e.advance >= W

\* C11: a CR immediately followed by LF advances pen.y by one text_height, not
\* two: the CR breaks the line, the LF places nothing, and a glyph that follows
\* the pair starts at x0 one text_height below the line of the CR.
C11_CRLFIsOneBreak ==
    (pc = "pass2") =>
       \A j \in 1 .. Len(text) - 1 :
          (text[j] = CR /\ text[j + 1] = LF /\ i > j + 1 /\ NULLPTR \notin used) =>
             /\ LayAt(j + 1) = {}
             /\ \A n \in LayAt(j) :
                   /\ lay[n].y_after = lay[n].y_before + text_height
                   /\ \A m \in LayAt(j + 2) :
                         (~Wide(lay[m]) /\ lay[m].code # CR /\ lay[m].code # LF) =>
                            /\ lay[m].y_after = lay[n].y_before + text_height
                            /\ lay[m].kx = cfg.x
                            /\ positions[j + 2] =
                                  [x |-> cfg.x + lay[m].bitmap_left,
                                   y |-> lay[n].y_before + text_height
                                           - lay[m].bitmap_top + baseline]

\* the text A, CR, LF, B laid out without a width-based wrap, B placed
C11_Witness ==
    /\ pc = "pass2" /\ text_height > 0 /\ Len(text) = 4
    /\ text[2] = CR /\ text[3] = LF /\ text[1] # CR /\ text[1] # LF
    /\ LayAt(4) # {}
    /\ \A n \in 1 .. Len(lay) : ~Wide(lay[n])

\* the indices of the text that the claim counts as line breaks: every CR, and
\* every LF whose immediately preceding codepoint is not CR
BreakIndices(t) ==
    { j \in 1 .. Len(t) :
        \/ t[j] = CR
        \/ t[j] = LF /\ (j = 1 \/ t[j - 1] # CR) }

\* TRUE when no placement of the second pass met the wrap test
NoWidthWrap == \A n \in 1 .. Len(lay) : ~Wide(lay[n])

\* C12: every CR and every LF not immediately preceded by CR starts a new
\* line, and only the single LF directly after a CR is suppressed: with no
\* width-based wrap, the pen.y at the end of the second pass is
\* y0 + text_height * (number of CR + number of LF not preceded by CR).
C12_BreakCount ==
    (pc = "pass2" /\ i > Len(text) /\ NoWidthWrap /\ NULLPTR \notin used) =>
       y = cfg.y + text_height * Cardinality(BreakIndices(text))

\* the advance placement e adds to the pen: none for CR and LF, tabsize
\* advances for a tab
PenAdvance(e) ==
    IF e.code = CR \/ e.code = LF THEN 0
    ELSE IF e.code = TAB THEN e.advance * cfg.tabsize
    ELSE e.advance

RECURSIVE LineMax(_, _, _)
\* the largest per-line sum of advances of placements n .. Len(lay), where cur
\* is the sum of the line being laid out and best the largest finished line
LineMax(n, cur, best) ==
    IF n > Len(lay) THEN FFMAX(cur, best)
    ELSE IF lay[n].code = CR \/ lay[n].code = LF \/ Wide(lay[n])
         THEN LineMax(n + 1, PenAdvance(lay[n]), FFMAX(cur, best))
         ELSE LineMax(n + 1, cur + PenAdvance(lay[n]), best)

\* C13: the width passed to the background box is a line width: W - x0 - 1
\* when a width-based wrap occurred, and otherwise at most the largest
\* per-line sum of glyph advances of the laid-out text.
C13_BoxWidthIsLineWidth ==
    (boxrect.called /\ NULLPTR \notin used) =>
       IF NoWidthWrap
       THEN boxrect.width <= LineMax(1, 0, 0)
       ELSE boxrect.width = W - cfg.x - 1

\* the 26.6 kerning delta-x the rasterizer returned for placement e
KernDelta(e) == FT_Get_Kerning(e.prev, e.gcode)

\* C14 as stated: the kerning delta-x is added to pen.x as whole pixels
\* rounded toward zero, so a delta of -1/64 pixel contributes 0.
C14_KerningTowardZero ==
    \A n \in 1 .. Len(lay) :
       lay[n].kerned =>
          LET d == KernDelta(lay[n])
              q == lay[n].kx - lay[n].x_before
          IN  IF d >= 0 THEN 64 * q <= d /\ d < 64 * q + 64
                        ELSE 64 * q - 64 < d /\ d <= 64 * q

\* C14: with kerning and a previous glyph, the amount added to pen.x before
\* the wrap test is the 26.6 kerning delta-x shifted right by 6 bits, that is
\* rounded toward negative infinity: a delta of -1/64 pixel contributes -1.
\* Without kerning or a previous glyph nothing is added.
C14_KerningFloor ==
    \A n \in 1 .. Len(lay) :
       LET d == KernDelta(lay[n])
           q == lay[n].kx - lay[n].x_before
       IN  IF lay[n].kerned
           THEN 64 * q <= d /\ d < 64 * q + 64
           ELSE q = 0

\* a kerned placement whose delta is negative and not a whole number of pixels
C14_Witness ==
    \E n \in 1 .. Len(lay) :
       /\ lay[n].kerned
       /\ KernDelta(lay[n]) < 0
       /\ KernDelta(lay[n]) % 64 # 0
       /\ lay[n].kx = lay[n].x_before - 1

====
